---- MODULE Spec2Model ----
(***************************************************************************)
(* The interactive data cleaner (DataCleaner.jsx) and its HTTP client      *)
(* (api.js) as a state machine.                                            *)
(*                                                                         *)
(* The component's React state is the VARIABLES.  Every async handler is   *)
(* split where the source awaits: the part before the await is the user    *)
(* action (it captures sessionId, generatedCode, instruction and mode from *)
(* the render it was called in and sends the request), the part after the  *)
(* await is the response action (try-body or catch, then finally), which   *)
(* runs as one uninterrupted continuation.  Requests in flight are a bag;  *)
(* the network settles them in any order.                                  *)
(***************************************************************************)
EXTENDS Bags, FiniteSets, Integers, Sequences, TLC

\* ------------------------------------------------------------------ bounds
\* Requests the client sends in one behaviour.
MaxRequests == 5

\* ------------------------------------------------------------ value spaces
\* A nullable value is a sequence of length 0 (null) or 1.
Null == <<>>
Some(v) == <<v>>

Steps == {"upload", "preview", "code", "result"}
Modes == {"interactive", "quick"}
Kinds == {"upload", "clean", "generate", "execute"}

\* Files the user can choose (File.name).
Files == {"data.csv", "sales.json"}

\* Instruction texts, as sequences of characters: empty, whitespace only,
\* and a real instruction (one of the suggestion buttons' texts).
Instructions == {<<>>, <<" ">>, <<"d">>}

\* The empty code text: useState("") and handleReset.
EmptyCode == [gen |-> Null, edited |-> FALSE]

\* Code text returned by /generate-code for a request that named session s
\* (s is the nullable session id the request carried).
CodeFor(s) == [gen |-> Some(s), edited |-> FALSE]

\* Response bodies of /clean and /execute: the counts the views read.
Payloads ==
  { [count |-> 2, total_rows |-> 2, processed |-> 2],
    [count |-> 1, total_rows |-> 2, processed |-> 1] }

\* The ways a request fails: a non-ok HTTP response, with or without a
\* detail field in its JSON body, or a rejected fetch (transport failure).
Failures ==
  { [type |-> "http", detail |-> Null],
    [type |-> "http", detail |-> Some("Session not found")],
    [type |-> "network", detail |-> Null] }

\* The message of the TypeError a rejected fetch carries.
NetworkMessage == "Failed to fetch"

\* String.prototype.trim on a sequence of characters.
RECURSIVE TrimLeft(_)
TrimLeft(s) ==
  IF s # <<>> /\ Head(s) = " " THEN TrimLeft(Tail(s)) ELSE s

RECURSIVE TrimRight(_)
TrimRight(s) ==
  IF s # <<>> /\ s[Len(s)] = " " THEN TrimRight(SubSeq(s, 1, Len(s) - 1)) ELSE s

Trim(s) == TrimRight(TrimLeft(s))

\* ------------------------------------------------------------------- state
VARIABLES
  step,              \* "upload" | "preview" | "code" | "result"
  loading,           \* BOOLEAN
  error,             \* Null or Some(message)
  sessionId,         \* Null or Some(id)
  uploadData,        \* Null or Some(upload response)
  instruction,       \* sequence of characters
  generatedCode,     \* code text
  result,            \* Null or Some(result object)
  mode,              \* "interactive" | "quick"
  originalFilename,  \* "" or a file name
  inflight,          \* bag of requests sent and not yet settled
  sent,              \* history: the kinds of request sent so far
  requests,          \* history: the number of requests sent so far
  sessions,          \* server: number of sessions created so far
  codeShown,         \* history: some generate response has displayed code
  called,            \* Null or Some(a function of the program and its input)
  returned,          \* Null or Some(what that call returned or threw)
  single             \* the single-step cleaner: FileUpload's state, its
                     \* parent's result and the clean requests in flight

vars ==
  << step, loading, error, sessionId, uploadData, instruction, generatedCode,
     result, mode, originalFilename, inflight, sent, requests, sessions,
     codeShown, called, returned, single >>

\* The state of the DataCleaner component and of its requests.
cleaner ==
  << step, loading, error, sessionId, uploadData, instruction, generatedCode,
     result, mode, originalFilename, inflight, sent, requests, sessions,
     codeShown >>

\* The record of a function called on its own.
call == << called, returned >>

data == << sessionId, uploadData, instruction, generatedCode, result,
           originalFilename >>

\* A request as the api.js function was called: its arguments.
Request(kind, file, sid, instr, code) ==
  [kind |-> kind, file |-> file, sessionId |-> sid, instruction |-> instr,
   code |-> code]

Pending(kind) == {r \in BagToSet(inflight) : r.kind = kind}

\* The bound leaves room for one more request.
CanSend == requests < MaxRequests

Send(r) ==
  /\ inflight' = inflight (+) SetToBag({r})
  /\ sent' = sent \cup {r.kind}
  /\ requests' = requests + 1

Settle(r) ==
  /\ inflight' = inflight (-) SetToBag({r})
  /\ UNCHANGED << sent, requests >>

\* Only the interactive workflow has been used: no quick-clean request was
\* ever sent.
InteractiveOnly == "clean" \notin sent

Init ==
  /\ step = "upload"
  /\ loading = FALSE
  /\ error = Null
  /\ sessionId = Null
  /\ uploadData = Null
  /\ instruction = <<>>
  /\ generatedCode = EmptyCode
  /\ result = Null
  /\ mode = "interactive"
  /\ originalFilename = ""
  /\ inflight = EmptyBag
  /\ sent = {}
  /\ requests = 0
  /\ sessions = 0
  /\ codeShown = FALSE
  /\ called = Null
  /\ returned = Null
  /\ single = [file |-> Null, loading |-> FALSE, error |-> Null,
               outputFormat |-> "json", result |-> Null,
               inflight |-> EmptyBag, submits |-> 0]

\* ------------------------------------------------------- api.js: messages
\* The message of the Error each api.js function throws for failure f.
uploadFileError(f) ==
  IF f.type = "network" THEN NetworkMessage ELSE "Failed to upload file"

cleanFileError(f) ==
  IF f.type = "network" THEN NetworkMessage ELSE "Failed to clean file"

generateCodeError(f) ==
  IF f.type = "network" THEN NetworkMessage
  ELSE IF f.detail # Null THEN f.detail[1] ELSE "Failed to generate code"

executeCodeError(f) ==
  IF f.type = "network" THEN NetworkMessage
  ELSE IF f.detail # Null THEN f.detail[1] ELSE "Failed to execute code"

\* The object cleanFile(file, "json") returns for response body p.
cleanFileJson(r, p) ==
  [format |-> "json", from |-> r, count |-> p.count,
   total_rows |-> p.total_rows, processed |-> p.processed]

\* The object executeCode(id, code, "json") returns for response body p.
executeCodeJson(r, p) ==
  [format |-> "none", from |-> r, count |-> p.count,
   total_rows |-> p.total_rows, processed |-> p.processed]

\* The body of a successful /upload response for the session the server
\* created; its schema, statistics and sample are those of that session.
uploadResponse(r, id) == [session_id |-> id]

\* ----------------------------------------------------- DataCleaner: upload
\* handleUpload with the mode test lost: every file goes to uploadFile.
handleUploadIgnoresMode(file) ==
  /\ loading' = TRUE
  /\ error' = Null
  /\ Send(Request("upload", file, Null, <<>>, EmptyCode))
  /\ UNCHANGED << step, mode, data, sessions, codeShown >>

\* handleUpload(file) up to its await.  The mode test runs before the await,
\* so the branch (cleanFile or uploadFile) is fixed when the file is chosen.
handleUpload(file) ==
  /\ loading' = TRUE
  /\ error' = Null
  /\ IF mode = "quick"
       THEN Send(Request("clean", file, Null, <<>>, EmptyCode))
       ELSE Send(Request("upload", file, Null, <<>>, EmptyCode))
  /\ UNCHANGED << step, mode, data, sessions, codeShown >>

\* The file input of the upload step (onChange); it is not disabled while
\* loading.
ChooseFile(file) ==
  /\ step = "upload"
  /\ CanSend
  /\ handleUpload(file)

\* handleUpload, interactive branch, after uploadFile resolved, without its
\* setUploadData(data) call.
UploadResolvedKeepsPreview(r) ==
  /\ r \in Pending("upload")
  /\ Settle(r)
  /\ sessions' = sessions + 1
  /\ sessionId' = Some(sessions')
  /\ originalFilename' = r.file
  /\ step' = "preview"
  /\ loading' = FALSE
  /\ UNCHANGED << uploadData, error, instruction, generatedCode, result, mode,
                  codeShown >>

\* handleUpload, interactive branch, after uploadFile resolved.
UploadResolved(r) ==
  /\ r \in Pending("upload")
  /\ Settle(r)
  /\ sessions' = sessions + 1
  /\ sessionId' = Some(sessions')
  /\ uploadData' = Some(uploadResponse(r, sessions'))
  /\ originalFilename' = r.file
  /\ step' = "preview"
  /\ loading' = FALSE
  /\ UNCHANGED << error, instruction, generatedCode, result, mode, codeShown >>

\* handleUpload after uploadFile threw, without the finally block.
UploadRejectedKeepsLoading(r, f) ==
  /\ r \in Pending("upload")
  /\ Settle(r)
  /\ error' = Some(uploadFileError(f))
  /\ UNCHANGED << step, loading, mode, data, sessions, codeShown >>

\* handleUpload, interactive branch, after uploadFile threw.
UploadRejected(r, f) ==
  /\ r \in Pending("upload")
  /\ Settle(r)
  /\ error' = Some(uploadFileError(f))
  /\ loading' = FALSE
  /\ UNCHANGED << step, mode, data, sessions, codeShown >>

\* handleUpload, quick branch, after cleanFile resolved with body p.
CleanResolved(r, p) ==
  /\ r \in Pending("clean")
  /\ Settle(r)
  /\ result' = Some(cleanFileJson(r, p))
  /\ step' = "result"
  /\ loading' = FALSE
  /\ UNCHANGED << error, sessionId, uploadData, instruction, generatedCode,
                  originalFilename, mode, sessions, codeShown >>

\* handleUpload, quick branch, after cleanFile threw.
CleanRejected(r, f) ==
  /\ r \in Pending("clean")
  /\ Settle(r)
  /\ error' = Some(cleanFileError(f))
  /\ loading' = FALSE
  /\ UNCHANGED << step, mode, data, sessions, codeShown >>

\* --------------------------------------------------- DataCleaner: generate
\* The preview step is rendered.
PreviewShown == step = "preview" /\ uploadData # Null

\* The instruction input's onChange and the suggestion buttons.
SetInstruction(v) ==
  /\ PreviewShown
  /\ instruction' = v
  /\ UNCHANGED << step, loading, error, sessionId, uploadData, generatedCode,
                  result, mode, originalFilename, inflight, sent, requests, sessions,
                  codeShown >>

\* handleGenerateCode up to its await, without the test of the instruction.
handleGenerateCodeUnchecked ==
  /\ CanSend
  /\ loading' = TRUE
  /\ error' = Null
  /\ Send(Request("generate", "", sessionId, instruction, EmptyCode))
  /\ UNCHANGED << step, mode, data, sessions, codeShown >>

\* handleGenerateCode up to its await; an instruction that trims to the
\* empty string returns at once.
handleGenerateCode ==
  IF Trim(instruction) = <<>>
    THEN UNCHANGED vars
    ELSE /\ CanSend
         /\ loading' = TRUE
         /\ error' = Null
         /\ Send(Request("generate", "", sessionId, instruction, EmptyCode))
         /\ UNCHANGED << step, mode, data, sessions, codeShown >>

\* The Generate Code button is rendered in the preview step and disabled
\* while loading or with a blank instruction.
GenerateOffered == PreviewShown /\ ~loading /\ Trim(instruction) # <<>>

ClickGenerate ==
  /\ GenerateOffered
  /\ handleGenerateCode

\* The Enter key in the instruction input: no loading test.
PressEnter ==
  /\ PreviewShown
  /\ handleGenerateCode

\* handleGenerateCode after generateCode resolved.
GenerateResolved(r) ==
  /\ r \in Pending("generate")
  /\ Settle(r)
  /\ generatedCode' = CodeFor(r.sessionId)
  /\ step' = "code"
  /\ loading' = FALSE
  /\ codeShown' = TRUE
  /\ UNCHANGED << error, sessionId, uploadData, instruction, result, mode,
                  originalFilename, sessions >>

\* The catch of handleGenerateCode, had it also started the workflow over.
GenerateRejectedStartsOver(r, f) ==
  /\ r \in Pending("generate")
  /\ Settle(r)
  /\ error' = Some(generateCodeError(f))
  /\ loading' = FALSE
  /\ step' = "upload"
  /\ sessionId' = Null
  /\ uploadData' = Null
  /\ UNCHANGED << instruction, generatedCode, result, originalFilename, mode,
                  sessions, codeShown >>

\* handleGenerateCode after generateCode threw.
GenerateRejected(r, f) ==
  /\ r \in Pending("generate")
  /\ Settle(r)
  /\ error' = Some(generateCodeError(f))
  /\ loading' = FALSE
  /\ UNCHANGED << step, mode, data, sessions, codeShown >>

\* The editor's onChange, had it dismissed the displayed error as well.
EditCodeClearsError ==
  /\ step = "code"
  /\ generatedCode' = [generatedCode EXCEPT !.edited = TRUE]
  /\ error' = Null
  /\ UNCHANGED << step, loading, sessionId, uploadData, instruction,
                  result, mode, originalFilename, inflight, sent, requests, sessions,
                  codeShown >>

\* ---------------------------------------------------- DataCleaner: execute
\* The code textarea's onChange: the user types over the code.
EditCode ==
  /\ step = "code"
  /\ generatedCode' = [generatedCode EXCEPT !.edited = TRUE]
  /\ UNCHANGED << step, loading, error, sessionId, uploadData, instruction,
                  result, mode, originalFilename, inflight, sent, requests, sessions,
                  codeShown >>

\* The Back to Preview button of the code step.
BackToPreview ==
  /\ step = "code"
  /\ step' = "preview"
  /\ UNCHANGED << loading, error, mode, data, inflight, sent, requests, sessions,
                  codeShown >>

\* The Execute Code button, had it been rendered outside the code step.
ExecuteOfferedEveryStep == ~loading

\* The Execute Code button is rendered in the code step and disabled
\* while loading.
ExecuteOffered == step = "code" /\ ~loading

\* handleExecute up to its await.
handleExecute ==
  /\ loading' = TRUE
  /\ error' = Null
  /\ Send(Request("execute", "", sessionId, <<>>, generatedCode))
  /\ UNCHANGED << step, mode, data, sessions, codeShown >>

ClickExecute ==
  /\ ExecuteOffered
  /\ CanSend
  /\ handleExecute

\* handleExecute after executeCode resolved with body p.
ExecuteResolved(r, p) ==
  /\ r \in Pending("execute")
  /\ Settle(r)
  /\ result' = Some(executeCodeJson(r, p))
  /\ step' = "result"
  /\ loading' = FALSE
  /\ UNCHANGED << error, sessionId, uploadData, instruction, generatedCode,
                  originalFilename, mode, sessions, codeShown >>

\* The catch of handleExecute, had setStep("result") been placed in finally.
ExecuteRejectedAdvances(r, f) ==
  /\ r \in Pending("execute")
  /\ Settle(r)
  /\ error' = Some(executeCodeError(f))
  /\ step' = "result"
  /\ loading' = FALSE
  /\ UNCHANGED << mode, data, sessions, codeShown >>

\* handleExecute after executeCode threw.
ExecuteRejected(r, f) ==
  /\ r \in Pending("execute")
  /\ Settle(r)
  /\ error' = Some(executeCodeError(f))
  /\ loading' = FALSE
  /\ UNCHANGED << step, mode, data, sessions, codeShown >>

\* ----------------------------------------------------- DataCleaner: result
\* The result step is rendered.
ResultShown == step = "result" /\ result # Null

\* handleReset without its setOriginalFilename("") call.
handleResetKeepsFilename ==
  /\ step' = "upload"
  /\ sessionId' = Null
  /\ uploadData' = Null
  /\ instruction' = <<>>
  /\ generatedCode' = EmptyCode
  /\ result' = Null
  /\ error' = Null
  /\ UNCHANGED << originalFilename, loading, mode, inflight, sent, requests,
                  sessions, codeShown >>

\* handleReset.
handleReset ==
  /\ step' = "upload"
  /\ sessionId' = Null
  /\ uploadData' = Null
  /\ instruction' = <<>>
  /\ generatedCode' = EmptyCode
  /\ result' = Null
  /\ error' = Null
  /\ originalFilename' = ""
  /\ UNCHANGED << loading, mode, inflight, sent, requests, sessions, codeShown >>

\* The Process Another File button of the result step.
ClickReset ==
  /\ ResultShown
  /\ handleReset

\* The mode toggle buttons (always rendered).
SetMode(m) ==
  /\ mode' = m
  /\ UNCHANGED << step, loading, error, data, inflight, sent, requests, sessions,
                  codeShown >>

\* ------------------------------------------------------------------ views
\* What a view tells the user about the rows of a result: the number it
\* presents as processed or cleaned, and the "processed p of t rows" note
\* when it renders one.
View(rows, note) == [rows |-> rows, note |-> note]

\* The green banner of DataCleaner's result step:
\* "Processed {result.total_rows || result.count} rows".
ResultBanner(res) ==
  View(IF res.total_rows # 0 THEN res.total_rows ELSE res.count, Null)

\* OutputViewer's summary line: "Records cleaned: {data.count}" and, when
\* data.total_rows > data.processed, "(processed p of t rows ...)".
OutputViewerSummary(d) ==
  View(d.count,
       IF d.total_rows > d.processed
         THEN Some([processed |-> d.processed, total_rows |-> d.total_rows])
         ELSE Null)

\* ------------------------------------------------------------ specification
\* What the user can do.
UserNext ==
  \/ \E file \in Files : ChooseFile(file)
  \/ \E v \in Instructions : SetInstruction(v)
  \/ ClickGenerate
  \/ PressEnter
  \/ EditCode
  \/ BackToPreview
  \/ ClickExecute
  \/ ClickReset
  \/ \E m \in Modes : SetMode(m)

\* What the network delivers.
ResponseNext ==
  \/ \E r \in BagToSet(inflight) : UploadResolved(r)
  \/ \E r \in BagToSet(inflight), f \in Failures : UploadRejected(r, f)
  \/ \E r \in BagToSet(inflight), p \in Payloads : CleanResolved(r, p)
  \/ \E r \in BagToSet(inflight), f \in Failures : CleanRejected(r, f)
  \/ \E r \in BagToSet(inflight) : GenerateResolved(r)
  \/ \E r \in BagToSet(inflight), f \in Failures : GenerateRejected(r, f)
  \/ \E r \in BagToSet(inflight), p \in Payloads : ExecuteResolved(r, p)
  \/ \E r \in BagToSet(inflight), f \in Failures : ExecuteRejected(r, f)

Next == (UserNext \/ ResponseNext) /\ UNCHANGED << call, single >>

Spec == Init /\ [][Next]_vars

\* ------------------------------------------------------------------ claims
\* This step puts a request of the kind in flight.
Added(kind) ==
  \E r \in Pending(kind)' : CopiesIn(r, inflight') > CopiesIn(r, inflight)

\* C1: an execute request is sent only by the user clicking Execute while
\* step = "code", with the code on screen as its text; no response, file
\* choice, mode toggle, Back to Preview or reset sends one.  Hence once any
\* execute request has been sent, some generate response has displayed code.
HumanInTheLoop ==
  /\ [][Added("execute") =>
          /\ step = "code"
          /\ ClickExecute
          /\ \E r \in Pending("execute")' :
               /\ r.code = generatedCode
               /\ inflight' = inflight (+) SetToBag({r})]_vars
  /\ []("execute" \in sent => codeShown)

\* C1 witness: an execute request is in flight, sent from the code step.
HumanInTheLoopWitness ==
  /\ Pending("execute") # {}
  /\ step = "code"
  /\ codeShown

\* C2: when an execute request fails, handleExecute leaves step where it
\* was (never moving it to "result"), leaves generatedCode, result and
\* sessionId unchanged, sets error to the message of the failure and clears
\* loading; with the code step still on screen, Execute is offered again.
ExecuteFailureStaysAtCode ==
  [][\A r \in BagToSet(inflight), f \in Failures :
       ExecuteRejected(r, f) =>
         /\ step' = step
         /\ (step # "result" => step' # "result")
         /\ generatedCode' = generatedCode
         /\ result' = result
         /\ sessionId' = sessionId
         /\ error' # Null
         /\ error' = Some(executeCodeError(f))
         /\ (step = "code" => step' = "code" /\ ExecuteOffered')]_vars

\* C2 witness: the code step after a failed execute, with the server's
\* default message shown and Execute offered again.
ExecuteFailureWitness ==
  /\ step = "code"
  /\ error = Some("Failed to execute code")
  /\ ExecuteOffered
  /\ result = Null
  /\ "execute" \in sent
  /\ inflight = EmptyBag

\* C3: when a generate request fails, handleGenerateCode leaves step where
\* it was, leaves sessionId, uploadData, instruction and generatedCode
\* unchanged, sets error and clears loading; with the preview step still on
\* screen the Generate button is enabled again for the same session.
GenerateFailureStaysAtPreview ==
  [][\A r \in BagToSet(inflight), f \in Failures :
       GenerateRejected(r, f) =>
         /\ step' = step
         /\ sessionId' = sessionId
         /\ uploadData' = uploadData
         /\ instruction' = instruction
         /\ generatedCode' = generatedCode
         /\ error' = Some(generateCodeError(f))
         /\ ~loading'
         /\ (PreviewShown /\ Trim(instruction) # <<>> => GenerateOffered')]_vars

\* C3 witness: the preview step after a failed generate, session kept.
GenerateFailureWitness ==
  /\ step = "preview"
  /\ error = Some("Failed to generate code")
  /\ sessionId # Null
  /\ uploadData # Null
  /\ ~loading
  /\ "generate" \in sent
  /\ inflight = EmptyBag

\* The step changes the interactive workflow allows.
AllowedStepChanges ==
  { <<"upload", "preview">>, <<"preview", "code">>, <<"code", "result">>,
    <<"code", "preview">>, <<"result", "upload">> }

\* C4: in interactive mode (no quick-clean request was ever sent) step only
\* changes along upload->preview, preview->code, code->result,
\* code->preview and result->upload, whatever the order of the responses.
StepFollowsWorkflow ==
  [][(InteractiveOnly' /\ step' # step) =>
        <<step, step'>> \in AllowedStepChanges]_vars

\* C5: whenever step = "code" (the only state that offers Execute)
\* sessionId is non-null, and no execute request carries a null session id;
\* stated for the behaviours that use the interactive workflow only.
CodeStepHasSession ==
  InteractiveOnly =>
    /\ step = "code" => sessionId # Null
    /\ \A r \in Pending("execute") : r.sessionId # Null

\* C6: an execute request sent with session id s carries code that derives
\* from a generate response requested for session s; stated for the
\* behaviours that use the interactive workflow only.
CodeBelongsToSession ==
  InteractiveOnly =>
    \A r \in Pending("execute") :
      r.sessionId # Null => r.code.gen = Some(r.sessionId)

\* C7: a file chosen in quick mode sends exactly one clean request and no
\* other; its successful response sets step to "result" and result to the
\* object built from the /clean response, and leaves sessionId and
\* generatedCode alone.  While only quick-mode uploads have been made the
\* workflow never shows preview or code, never sends an upload, generate or
\* execute request and never has a sessionId or generatedCode.
QuickCleanBypass ==
  /\ [][/\ \A file \in Files :
             (mode = "quick" /\ ChooseFile(file)) =>
               /\ inflight' = inflight (+)
                    SetToBag({Request("clean", file, Null, <<>>, EmptyCode)})
               /\ \A k \in Kinds \ {"clean"} : ~Added(k)
        /\ \A r \in BagToSet(inflight), p \in Payloads :
             CleanResolved(r, p) =>
               /\ step' = "result"
               /\ result' = Some(cleanFileJson(r, p))
               /\ sessionId' = sessionId
               /\ generatedCode' = generatedCode
               /\ \A k \in Kinds : ~Added(k)]_vars
  /\ []("upload" \notin sent =>
          /\ step \in {"upload", "result"}
          /\ sent \subseteq {"clean"}
          /\ sessionId = Null
          /\ generatedCode = EmptyCode)

\* C7 witness: a quick-clean result on screen with no upload ever made.
QuickCleanBypassWitness ==
  /\ step = "result"
  /\ result # Null
  /\ result[1].from.kind = "clean"
  /\ sent = {"clean"}

\* C8: step = "preview" is never reached without a session created by a
\* successful upload: in the preview step sessionId and uploadData are set;
\* stated for the behaviours that use the interactive workflow only.
PreviewHasSession ==
  (InteractiveOnly /\ step = "preview") =>
    sessionId # Null /\ uploadData # Null

\* C9: from a result reached through a successful execute the user is
\* offered a way back to "preview" that keeps the session.
ExecutedNotTerminal ==
  (ResultShown /\ result[1].from.kind = "execute") =>
    ENABLED (UserNext /\ step' = "preview" /\ sessionId' = sessionId)

\* A view reports the shortfall of res when it shows both numbers.
ReportsShortfall(view, res) ==
  view.note = Some([processed |-> res.processed, total_rows |-> res.total_rows])

\* C10: a displayed result with processed < total_rows has both numbers
\* reported by the view that displays it, in OutputViewer and in the result
\* step of DataCleaner for quick-clean results.
ShortfallReported ==
  (ResultShown /\ result[1].from.kind = "clean"
     /\ result[1].processed < result[1].total_rows) =>
    /\ ReportsShortfall(OutputViewerSummary(result[1]), result[1])
    /\ ReportsShortfall(ResultBanner(result[1]), result[1])

\* --------------------------------------------------- claims C11 .. C20
\* C11: for each of uploadFile, cleanFile, generateCode and executeCode, a
\* non-ok response whose body carries detail d makes the error the
\* component shows equal to d.
ErrorIsServerDetail ==
  [][\A r \in BagToSet(inflight), f \in Failures :
       (/\ f.type = "http"
        /\ f.detail # Null
        /\ \/ UploadRejected(r, f)
           \/ CleanRejected(r, f)
           \/ GenerateRejected(r, f)
           \/ ExecuteRejected(r, f))
       => error' = f.detail]_vars

\* ------------------------------------------------ values of a result table
\* MaxRows bounds the rows of a table handed to handleDownload.
MaxRows == 2

\* The double quote character.
DQ == "\""

\* A cell of a result row: JSON null, a number (v is its String() text) or a
\* string (v is its characters); Undefined is what row[header] gives for a
\* key the row does not have.
Undefined == [t |-> "undefined", v |-> <<>>]

Cells ==
  { [t |-> "null", v |-> <<>>],
    [t |-> "number", v |-> <<"7">>],
    [t |-> "string", v |-> <<"a">>],
    [t |-> "string", v |-> <<"a", ",", "b">>],
    [t |-> "string", v |-> <<DQ>>],
    [t |-> "string", v |-> <<"a", ",", DQ>>],
    [t |-> "string", v |-> <<"a", "\n", "b">>] }

\* The decimal digits, in order of their value.
Digits == <<"0", "1", "2", "3", "4", "5", "6", "7", "8", "9">>

\* parseInt on a text of decimal digits.
RECURSIVE ParseInt(_)
ParseInt(s) ==
  IF s = <<>> THEN 0
  ELSE 10 * ParseInt(SubSeq(s, 1, Len(s) - 1))
         + (CHOOSE d \in 1..Len(Digits) : Digits[d] = s[Len(s)]) - 1

\* The column names of a result, in the order of result.columns.
Headers == << <<"x">>, <<"y">> >>

\* The column lists of the results: names that are not array indices, and a
\* name that is one (a column called 1) after one that is not.
ColumnLists == { Headers, << <<"x">>, <<"1">> >> }

\* A property key that is an array index: the canonical decimal text of a
\* non-negative integer.
IsIndexKey(k) ==
  /\ k # <<>>
  /\ \A i \in 1..Len(k) : \E d \in 1..Len(Digits) : Digits[d] = k[i]
  /\ Len(k) > 1 => k[1] # "0"

\* The object JSON.parse builds from the members `pairs` of a JSON object
\* (distinct keys): its own properties in the order Object.keys lists
\* them, array-index keys first in ascending numeric order, then the other
\* keys in the order of their creation.
JsObject(pairs) ==
  LET n == Len(pairs)
      index == { i \in 1..n : IsIndexKey(pairs[i].key) }
      position(i) ==
        IF i \in index
        THEN 1 + Cardinality({ j \in index :
                   ParseInt(pairs[j].key) < ParseInt(pairs[i].key) })
        ELSE Cardinality(index) + 1
               + Cardinality({ j \in (1..n) \ index : j < i })
  IN [p \in 1..n |-> pairs[CHOOSE i \in 1..n : position(i) = p]]

\* The row objects of a result with the columns `columns`.
Rows(columns) ==
  { JsObject([i \in 1..Len(columns) |-> [key |-> columns[i], value |-> c[i]]]) :
      c \in [1..Len(columns) -> Cells] }

\* result.data with n rows.
Tables(columns, n) == [1..n -> Rows(columns)]

\* A result as the server returns it.
Result(columns, rows) == [columns |-> columns, data |-> rows]

\* The file names handleDownload derives the download name from.
FileNames ==
  { <<"d", ".", "c", "s", "v">>, <<"d">>, <<>> }

\* Object.keys(row)
ObjectKeys(row) == [i \in 1..Len(row) |-> row[i].key]

\* row[key]
Get(row, key) ==
  IF \E i \in 1..Len(row) : row[i].key = key
  THEN row[CHOOSE i \in 1..Len(row) : row[i].key = key].value
  ELSE Undefined

\* String.prototype.includes for one character.
Includes(s, c) == \E i \in 1..Len(s) : s[i] = c

\* val.replace(/"/g, '""')
RECURSIVE ReplaceQuotes(_)
ReplaceQuotes(s) ==
  IF s = <<>> THEN <<>>
  ELSE (IF Head(s) = DQ THEN <<DQ, DQ>> ELSE <<Head(s)>>)
         \o ReplaceQuotes(Tail(s))

\* Array.prototype.join: the parts separated by the character sep.
RECURSIVE Join(_, _)
Join(parts, sep) ==
  IF parts = <<>> THEN <<>>
  ELSE IF Len(parts) = 1 THEN parts[1]
  ELSE parts[1] \o <<sep>> \o Join(Tail(parts), sep)

\* ------------------------------------------------ DataCleaner: handleDownload
\* The field the headers.map callback yields for cell val, with the quoting
\* left out of doubling the embedded quotes.
csvFieldNoDoubling(val) ==
  IF val.t = "string" /\ (Includes(val.v, ",") \/ Includes(val.v, DQ))
  THEN <<DQ>> \o val.v \o <<DQ>>
  ELSE IF val.t \in {"null", "undefined"} THEN <<>> ELSE val.v

\* The field the headers.map callback yields for cell val, as join(',')
\* turns it into text.
csvField(val) ==
  IF val.t = "string" /\ (Includes(val.v, ",") \/ Includes(val.v, DQ))
  THEN <<DQ>> \o ReplaceQuotes(val.v) \o <<DQ>>
  ELSE IF val.t \in {"null", "undefined"} THEN <<>> ELSE val.v

\* The fields of one data row, in the order of headers.
csvFields(headers, row) ==
  [j \in 1..Len(headers) |-> csvField(Get(row, headers[j]))]

\* originalFilename.replace(/\.[^/.]+$/, "")
StripExtension(name) ==
  LET dots == { i \in 1..(Len(name) - 1) :
                  /\ name[i] = "."
                  /\ \A j \in (i + 1)..Len(name) : name[j] \notin {"/", "."} }
  IN IF dots = {} THEN name
     ELSE SubSeq(name, 1, (CHOOSE i \in dots : TRUE) - 1)

\* What handleDownload does for the result res and the file name `name`:
\* nothing when there is no data row, else a file with the header line and
\* one line per row; fields keeps the rows' fields as they are before join.
handleDownload(res, name) ==
  IF res.data = <<>>
  THEN [saved |-> FALSE, headers |-> <<>>, fields |-> <<>>,
        content |-> <<>>, download |-> <<>>]
  ELSE
    LET headers == ObjectKeys(res.data[1])
        fields == [i \in 1..Len(res.data) |-> csvFields(headers, res.data[i])]
        csvRows == <<Join(headers, ",")>>
                     \o [i \in 1..Len(fields) |-> Join(fields[i], ",")]
        stripped == StripExtension(name)
        baseName == IF stripped = <<>> THEN <<"d", "a", "t", "a">> ELSE stripped
    IN [saved |-> TRUE, headers |-> headers, fields |-> fields,
        content |-> Join(csvRows, "\n"),
        download |-> baseName \o <<"_", "c", "l", "e", "a", "n", "e", "d",
                                   ".", "c", "s", "v">>]

\* The user clicks Download CSV with res displayed and `name` remembered.
Download(res, name) ==
  /\ called' = Some([fn |-> "handleDownload", res |-> res, name |-> name])
  /\ returned' = Some(handleDownload(res, name))
  /\ UNCHANGED << cleaner, single >>

\* ------------------------------------------------- api.js: clearSession
\* What a call of an api.js function ends with.
Returned(v) == [threw |-> FALSE, value |-> v]
Threw(message) == [threw |-> TRUE, value |-> message]

\* The HTTP statuses the server answers DELETE /session/{id} with: deleted,
\* deleted without body, session absent, server error.
Statuses == {200, 204, 404, 500}

\* What fetch ends with: a response with a status, or a rejected promise.
Replies ==
  { [type |-> "http", status |-> s] : s \in Statuses }
    \cup { [type |-> "network", status |-> 0] }

\* Response.ok
ResponseOk(reply) == reply.status >= 200 /\ reply.status <= 299

\* The session ids clearSession is called with.
SessionIds == {1, 2}

\* clearSession raising for a non-ok status, as the other functions do.
clearSessionThrows(id, reply) ==
  IF reply.type = "network" THEN Threw(NetworkMessage)
  ELSE IF ~ResponseOk(reply) THEN Threw("Failed to clear session")
  ELSE Returned(TRUE)

\* clearSession(id) when fetch ends with reply.
clearSession(id, reply) ==
  IF reply.type = "network" THEN Threw(NetworkMessage)
  ELSE Returned(ResponseOk(reply))

\* A caller invokes clearSession(id); again tells a call that repeats the
\* previous call's id.
ClearSession(id, reply, again) ==
  /\ called' = Some([fn |-> "clearSession", id |-> id, reply |-> reply,
                     again |-> again])
  /\ returned' = Some(clearSession(id, reply))
  /\ UNCHANGED << cleaner, single >>

\* ---------------------------------------------- api.js: csv output format
\* response.headers.get(name) || "0", for a header that is absent (Null) or
\* holds a text of digits.
HeaderOrZero(h) == IF h = Null \/ h[1] = <<>> THEN <<"0">> ELSE h[1]

\* The texts the X-Count, X-Total-Rows and X-Processed headers hold.
HeaderValues == {Null, Some(<<"2">>), Some(<<"1", "0">>)}

\* The CSV texts of a response body.
CsvTexts == {<<>>, <<"x", "\n", "1">>}

\* Successful responses to a request with output_format=csv.
CsvReplies ==
  [text : CsvTexts, xCount : HeaderValues, xTotalRows : HeaderValues,
   xProcessed : HeaderValues]

\* The object cleanFile(file, "csv") returns for the response reply.
cleanFileCsv(reply) ==
  [format |-> "csv", data |-> reply.text,
   count |-> ParseInt(HeaderOrZero(reply.xCount)),
   total_rows |-> ParseInt(HeaderOrZero(reply.xTotalRows)),
   processed |-> ParseInt(HeaderOrZero(reply.xProcessed))]

\* The object executeCode(id, code, "csv") returns for the response reply.
executeCodeCsv(reply) == [format |-> "csv", data |-> reply.text]

\* A caller invokes cleanFile(file, "csv") and the server answers ok.
CleanFileCsv(file, reply) ==
  /\ called' = Some([fn |-> "cleanFile", file |-> file,
                     outputFormat |-> "csv", reply |-> reply])
  /\ returned' = Some(Returned(cleanFileCsv(reply)))
  /\ UNCHANGED << cleaner, single >>

\* A caller invokes executeCode(id, code, "csv") and the server answers ok.
ExecuteCodeCsv(id, reply) ==
  /\ called' = Some([fn |-> "executeCode", id |-> id,
                     outputFormat |-> "csv", reply |-> reply])
  /\ returned' = Some(Returned(executeCodeCsv(reply)))
  /\ UNCHANGED << cleaner, single >>

\* ------------------------------------------- DataCleaner: the sample table
\* The number of rows the heading of the sample table announces.
SampleHeadingRows == 10

\* The end index of the slice the sample table maps over.
SampleSliceEnd == 5

\* Array.prototype.slice(from, to) for 0 <= from <= to: a new array, the
\* receiver is left as it is.
Slice(s, from, to) ==
  SubSeq(s, from + 1, IF to < Len(s) THEN to ELSE Len(s))

\* uploadData.sample_data of n rows: the server samples the first rows of
\* the file, at most as many as the heading announces.
SampleData(n) == [i \in 1..n |-> [row |-> i]]

\* The sample table of the preview step for sample_data: its heading and
\* the rows of its body, and sample_data as rendering leaves it.
SampleTable(sample_data) ==
  [heading |-> SampleHeadingRows,
   rows |-> Slice(sample_data, 0, SampleSliceEnd),
   sample_data |-> sample_data]

\* The preview step renders the sample table for an upload response.
RenderSample(sample_data) ==
  /\ called' = Some([fn |-> "SampleTable", sample_data |-> sample_data])
  /\ returned' = Some(SampleTable(sample_data))
  /\ UNCHANGED << cleaner, single >>

\* ------------------------------------------- functions called on their own
\* The function that was called last.
Called(fn) == called # Null /\ called[1].fn = fn

\* Each behaviour calls one function on one input; clearSession may be
\* called again for the same id. handleDownload is applied to the tables of
\* up to MaxRows rows under one file name, and to the one-row tables of
\* every column list under every file name.
CallNext ==
  \/ /\ called = Null
     /\ \/ \E n \in 0..MaxRows : \E t \in Tables(Headers, n) :
             Download(Result(Headers, t), <<"d", ".", "c", "s", "v">>)
        \/ \E columns \in ColumnLists, name \in FileNames :
             \E t \in Tables(columns, 1) : Download(Result(columns, t), name)
        \/ \E id \in SessionIds, reply \in Replies :
             ClearSession(id, reply, FALSE)
        \/ \E file \in Files, reply \in CsvReplies : CleanFileCsv(file, reply)
        \/ \E id \in SessionIds, reply \in CsvReplies :
             ExecuteCodeCsv(id, reply)
        \/ \E n \in 0..SampleHeadingRows : RenderSample(SampleData(n))
  \/ /\ Called("clearSession")
     /\ \E reply \in Replies : ClearSession(called[1].id, reply, TRUE)

CallSpec == Init /\ [][CallNext]_vars

\* The text s with each pair of double quotes read as one; a double quote
\* that is not followed by a second one is not part of a pair.
RECURSIVE Undouble(_)
Undouble(s) ==
  IF s = <<>> THEN <<>>
  ELSE IF Head(s) # DQ THEN <<Head(s)>> \o Undouble(Tail(s))
  ELSE IF Len(s) >= 2 /\ s[2] = DQ THEN <<DQ>> \o Undouble(Tail(Tail(s)))
  ELSE <<"unpaired">> \o Undouble(Tail(s))

\* The field is val's text between double quotes, its quotes doubled.
QuotedField(field, val) ==
  /\ Len(field) >= 2
  /\ Head(field) = DQ
  /\ field[Len(field)] = DQ
  /\ Undouble(SubSeq(field, 2, Len(field) - 1)) = val.v

\* C12: in the CSV handleDownload writes, a string cell that contains a
\* comma is enclosed in double quotes with every embedded double quote
\* doubled, a string cell with neither comma nor double quote is written
\* unchanged, and a null or undefined cell is written as an empty field.
CsvFieldsEscaped ==
  (Called("handleDownload") /\ returned[1].saved) =>
    LET rows == called[1].res.data
        out == returned[1]
    IN \A i \in 1..Len(rows), j \in 1..Len(out.headers) :
         LET val == Get(rows[i], out.headers[j])
             field == out.fields[i][j]
         IN /\ (val.t = "string" /\ Includes(val.v, ","))
                 => QuotedField(field, val)
            /\ (val.t = "string" /\ ~Includes(val.v, ",")
                  /\ ~Includes(val.v, DQ)) => field = val.v
            /\ val.t \in {"null", "undefined"} => field = <<>>

\* A file was written for a row holding a string with a comma and a double
\* quote, and a null cell.
CsvFieldsEscapedWitness ==
  /\ Called("handleDownload")
  /\ returned[1].saved
  /\ \E i \in 1..Len(called[1].res.data) :
       /\ Get(called[1].res.data[i], Headers[1]).v = <<"a", ",", DQ>>
       /\ returned[1].fields[i][1] = <<DQ, "a", ",", DQ, DQ, DQ>>
       /\ Get(called[1].res.data[i], Headers[2]).t = "null"
       /\ returned[1].fields[i][2] = <<>>
       /\ returned[1].content =
            <<"x", ",", "y", "\n", DQ, "a", ",", DQ, DQ, DQ, ",">>

\* C13: clearSession(id), called any number of times for one id, never
\* raises because of the status of the response: it returns true when the
\* server answered ok and false otherwise.
TeardownNeverRaises ==
  (Called("clearSession") /\ called[1].reply.type = "http") =>
    /\ ~returned[1].threw
    /\ returned[1].value = (called[1].reply.status \in 200..299)

\* clearSession was called again for an id and the server answered 404.
TeardownNeverRaisesWitness ==
  /\ Called("clearSession")
  /\ called[1].again
  /\ called[1].reply = [type |-> "http", status |-> 404]
  /\ returned[1] = [threw |-> FALSE, value |-> FALSE]

\* C14: for csv output, the object cleanFile(file, 'csv') returns and the
\* object executeCode(id, code, 'csv') returns each carry count, total_rows
\* and processed next to the text, as the response's headers give them.
CsvResultHasCounts ==
  ((Called("cleanFile") \/ Called("executeCode")) /\ ~returned[1].threw) =>
    LET out == returned[1].value
        reply == called[1].reply
    IN /\ out.data = reply.text
       /\ {"count", "total_rows", "processed"} \subseteq DOMAIN out
       /\ out.count = ParseInt(HeaderOrZero(reply.xCount))
       /\ out.total_rows = ParseInt(HeaderOrZero(reply.xTotalRows))
       /\ out.processed = ParseInt(HeaderOrZero(reply.xProcessed))

\* C15: editing the code in the code step changes generatedCode only (step,
\* sessionId, uploadData, result, error and loading stay as they are) and
\* sends no request; the execute request sent afterwards carries exactly
\* the editor's current text.
EditChangesCodeOnly ==
  [][/\ EditCode =>
          /\ UNCHANGED << step, sessionId, uploadData, result, error, loading >>
          /\ inflight' = inflight
          /\ requests' = requests
     /\ ClickExecute =>
          \A r \in Pending("execute")' :
            CopiesIn(r, inflight') > CopiesIn(r, inflight)
              => r.code = generatedCode]_vars

\* An execute request is in flight that carries the text the user edited.
EditChangesCodeOnlyWitness ==
  /\ step = "code"
  /\ generatedCode.edited
  /\ \E r \in Pending("execute") : r.code = generatedCode

\* C16: the table headed 'Sample Data (first 10 rows)' renders, for a sample
\* of n rows, exactly the first min(10, n) rows in their order, and leaves
\* uploadData.sample_data as it was.
SampleShowsTenRows ==
  Called("SampleTable") =>
    LET sample == called[1].sample_data
        n == Len(sample)
    IN /\ returned[1].rows = SubSeq(sample, 1, IF n < SampleHeadingRows THEN n
                                              ELSE SampleHeadingRows)
       /\ returned[1].sample_data = sample

\* The execute requests in flight for session s, with their multiplicity.
ExecutesInFlight(s) ==
  LET rs == { r \in Pending("execute") : r.sessionId = s }
  IN BagCardinality([r \in rs |-> CopiesIn(r, inflight)])

\* C17: the client never has two execute requests for one session id in
\* flight at the same time.
OneExecutePerSession ==
  \A r \in Pending("execute") : ExecutesInFlight(r.sessionId) <= 1

\* C18: loading is true in every state in which at least one request is in
\* flight.
LoadingWhileInFlight == inflight # EmptyBag => loading

\* MaxFairRequests bounds the requests of a behaviour of FairSpec.
MaxFairRequests == 4

\* The steps of the component within that bound.
FairNext == Next /\ requests' <= MaxFairRequests

\* Every request in flight is eventually settled, successfully or not.
FairSpec ==
  Init /\ [][FairNext]_vars /\ WF_vars(ResponseNext /\ UNCHANGED << call, single >>)

\* C19: if each request eventually settles, whenever a handler has set
\* loading = true, loading eventually becomes false again, after a success
\* and after a failure alike; and in every state with no request in flight
\* loading is false.
LoadingEventuallyCleared ==
  /\ [](inflight = EmptyBag => ~loading)
  /\ loading ~> ~loading

\* All requests have settled, the last of them with a failure, at least one
\* before it with a success, and loading is false.
LoadingEventuallyClearedWitness ==
  /\ inflight = EmptyBag
  /\ ~loading
  /\ error # Null
  /\ sessionId # Null
  /\ requests >= 2

\* No file has been chosen since the component was mounted or reset: the
\* upload step is shown, no upload or quick clean is in flight and none has
\* failed since (a failure sets error, which handleReset clears).
AwaitingNewFile ==
  /\ step = "upload"
  /\ error = Null
  /\ Pending("upload") = {}
  /\ Pending("clean") = {}

\* C20: after handleReset and until the user chooses a new file, a response
\* to a request issued before the reset changes none of step, sessionId,
\* generatedCode and result. In the upload step every generate or execute
\* request in flight was issued before the reset that led there.
ResetDiscardsStaleResponses ==
  [][(/\ AwaitingNewFile
      /\ InteractiveOnly
      /\ \/ \E r \in BagToSet(inflight) : GenerateResolved(r)
         \/ \E r \in BagToSet(inflight), p \in Payloads : ExecuteResolved(r, p))
     => UNCHANGED << step, sessionId, generatedCode, result >>]_vars

\* --------------------------------------------------- claims C21 .. C28
\* C21: handleReset returns the workflow to its initial data state: after it
\* step = 'upload', sessionId, uploadData, result and error are null and
\* instruction, generatedCode and originalFilename are empty; mode and
\* loading are as before and no request is sent.
ResetRestoresInitialData ==
  [][ClickReset =>
       /\ step' = "upload"
       /\ sessionId' = Null /\ uploadData' = Null
       /\ result' = Null /\ error' = Null
       /\ instruction' = <<>>
       /\ generatedCode' = EmptyCode
       /\ originalFilename' = ""
       /\ mode' = mode /\ loading' = loading
       /\ inflight' = inflight /\ requests' = requests]_vars

\* The workflow is back at its initial data state after a session was
\* created, code was executed for it and the result was left, in quick mode.
ResetRestoresInitialDataWitness ==
  /\ step = "upload"
  /\ sessionId = Null /\ uploadData = Null /\ result = Null /\ error = Null
  /\ instruction = <<>> /\ generatedCode = EmptyCode /\ originalFilename = ""
  /\ "execute" \in sent
  /\ sessions >= 1
  /\ mode = "quick"
  /\ inflight = EmptyBag

\* C22: in every reachable state sessionId and uploadData describe the same
\* upload: sessionId is null exactly when uploadData is null, and a non-null
\* sessionId equals uploadData.session_id, whatever the order of overlapping
\* upload responses and of resets.
SessionMatchesUploadData ==
  /\ (sessionId = Null) <=> (uploadData = Null)
  /\ sessionId # Null => sessionId[1] = uploadData[1].session_id

\* Overlapping uploads succeeded one after the other while a further one is
\* still in flight; the component holds the session of the response that
\* arrived last.
SessionMatchesUploadDataWitness ==
  /\ sessions >= 2
  /\ sessionId = Some(sessions)
  /\ uploadData # Null
  /\ uploadData[1].session_id = sessions
  /\ Pending("upload") # {}
  /\ step = "preview"

\* ------------------------------------- the single-step cleaner (FileUpload)
\* MaxSubmits bounds the clean requests of a behaviour of CleanerSpec.
MaxSubmits == 3

\* The output formats of FileUpload's radio buttons.
OutputFormats == {"json", "csv"}

\* The CSV responses the single-step cleaner receives.
SingleCsvReplies ==
  { reply \in CsvReplies :
      /\ reply.text # <<>>
      /\ reply.xCount = reply.xProcessed
      /\ reply.xCount # Null /\ reply.xTotalRows # Null }

\* The file input's onChange: the chosen file, or none when the dialog was
\* cancelled.
SelectFile(f) ==
  /\ single' = [single EXCEPT !.file = f, !.error = Null]
  /\ UNCHANGED << cleaner, call >>

\* The radio buttons' onChange.
SetOutputFormat(fmt) ==
  /\ single' = [single EXCEPT !.outputFormat = fmt]
  /\ UNCHANGED << cleaner, call >>

\* handleSubmit up to its await, without its onResult(null) call.
handleSubmitKeepsResult ==
  IF single.file = Null THEN UNCHANGED vars
  ELSE
    /\ single.submits < MaxSubmits
    /\ single' =
         [single EXCEPT
            !.loading = TRUE,
            !.error = Null,
            !.inflight = @ (+) SetToBag({[file |-> single.file[1],
                                          outputFormat |-> single.outputFormat]}),
            !.submits = @ + 1]
    /\ UNCHANGED << cleaner, call >>

\* handleSubmit up to its await.
handleSubmit ==
  IF single.file = Null THEN UNCHANGED vars
  ELSE
    /\ single.submits < MaxSubmits
    /\ single' =
         [single EXCEPT
            !.loading = TRUE,
            !.error = Null,
            !.result = Null,
            !.inflight = @ (+) SetToBag({[file |-> single.file[1],
                                          outputFormat |-> single.outputFormat]}),
            !.submits = @ + 1]
    /\ UNCHANGED << cleaner, call >>

\* The Upload & Clean button is disabled while loading or with no file.
SubmitOffered == ~single.loading /\ single.file # Null

ClickSubmit ==
  /\ SubmitOffered
  /\ handleSubmit

\* handleSubmit after cleanFile(file, "json") resolved with body p.
SubmitResolvedJson(r, p) ==
  /\ CopiesIn(r, single.inflight) > 0
  /\ r.outputFormat = "json"
  /\ single' = [single EXCEPT
                  !.result = Some(cleanFileJson(r, p)),
                  !.loading = FALSE,
                  !.inflight = @ (-) SetToBag({r})]
  /\ UNCHANGED << cleaner, call >>

\* handleSubmit after cleanFile(file, "csv") resolved with response reply.
SubmitResolvedCsv(r, reply) ==
  /\ CopiesIn(r, single.inflight) > 0
  /\ r.outputFormat = "csv"
  /\ single' = [single EXCEPT
                  !.result = Some(cleanFileCsv(reply)),
                  !.loading = FALSE,
                  !.inflight = @ (-) SetToBag({r})]
  /\ UNCHANGED << cleaner, call >>

\* handleSubmit after cleanFile threw.
SubmitRejected(r, f) ==
  /\ CopiesIn(r, single.inflight) > 0
  /\ single' = [single EXCEPT
                  !.error = Some(cleanFileError(f)),
                  !.loading = FALSE,
                  !.inflight = @ (-) SetToBag({r})]
  /\ UNCHANGED << cleaner, call >>

\* OutputViewer renders nothing without data.
OutputViewerShown == single.result # Null

CleanerNext ==
  \/ \E f \in {Null} \cup { Some(file) : file \in Files } : SelectFile(f)
  \/ \E fmt \in OutputFormats : SetOutputFormat(fmt)
  \/ ClickSubmit
  \/ \E r \in BagToSet(single.inflight), p \in Payloads :
       SubmitResolvedJson(r, p)
  \/ \E r \in BagToSet(single.inflight), reply \in SingleCsvReplies :
       SubmitResolvedCsv(r, reply)
  \/ \E r \in BagToSet(single.inflight), f \in Failures : SubmitRejected(r, f)

CleanerSpec == Init /\ [][CleanerNext]_vars

\* C23: in the single-step cleaner at most one clean request is in flight
\* at a time; result is null whenever loading is true; error and result are
\* never both non-null: a success leaves result set and error null, a
\* failure leaves error set and result null.
SingleStepCleaner ==
  /\ [](/\ BagCardinality(single.inflight) <= 1
        /\ single.loading => single.result = Null
        /\ ~(single.error # Null /\ single.result # Null))
  /\ [][/\ (\E r \in BagToSet(single.inflight) :
              \/ \E p \in Payloads : SubmitResolvedJson(r, p)
              \/ \E reply \in SingleCsvReplies : SubmitResolvedCsv(r, reply))
            => single'.result # Null /\ single'.error = Null
        /\ (\E r \in BagToSet(single.inflight), f \in Failures :
              SubmitRejected(r, f))
            => single'.error # Null /\ single'.result = Null]_vars

\* A result is displayed, with no error, after the last of MaxSubmits
\* requests has settled.
SingleStepCleanerWitness ==
  /\ OutputViewerShown
  /\ single.error = Null
  /\ ~single.loading
  /\ single.submits = MaxSubmits
  /\ single.inflight = EmptyBag

\* Delimited text read by the standard rules: fields are separated by
\* commas and records by line breaks; a field that starts with a double
\* quote runs to its closing double quote, commas and line breaks included,
\* and a doubled double quote inside it stands for one. text is what is left
\* to read, quoted tells whether a quoted field is open, field and record
\* are the parts read so far of the current field and record.
RECURSIVE ParseFrom(_, _, _, _, _)
ParseFrom(text, quoted, field, record, records) ==
  IF text = <<>> THEN Append(records, Append(record, field))
  ELSE
    LET c == Head(text)
        rest == Tail(text)
    IN IF quoted
       THEN IF c # DQ
            THEN ParseFrom(rest, TRUE, Append(field, c), record, records)
            ELSE IF rest # <<>> /\ Head(rest) = DQ
            THEN ParseFrom(Tail(rest), TRUE, Append(field, DQ), record, records)
            ELSE ParseFrom(rest, FALSE, field, record, records)
       ELSE IF c = DQ /\ field = <<>>
            THEN ParseFrom(rest, TRUE, field, record, records)
            ELSE IF c = ","
            THEN ParseFrom(rest, FALSE, <<>>, Append(record, field), records)
            ELSE IF c = "\n"
            THEN ParseFrom(rest, FALSE, <<>>, <<>>,
                           Append(records, Append(record, field)))
            ELSE ParseFrom(rest, FALSE, Append(field, c), record, records)

ParseCsv(text) == ParseFrom(text, FALSE, <<>>, <<>>, <<>>)

\* A cell as text: null and undefined are the empty text.
CellText(val) == IF val.t \in {"null", "undefined"} THEN <<>> ELSE val.v

\* The records a reader of the download is meant to get back: the header
\* names, then for each row one field per header.
ExpectedRecords(res) ==
  LET headers == ObjectKeys(res.data[1])
  IN <<headers>> \o
       [i \in 1..Len(res.data) |->
          [j \in 1..Len(headers) |-> CellText(Get(res.data[i], headers[j]))]]

\* C24: for every non-empty result.data whose rows have the keys of the
\* first row, reading the text handleDownload builds by the standard rules
\* of delimited text gives back the header names in order and, for each
\* row, one field per header equal to the cell as text, for cells that may
\* hold commas, double quotes and line breaks.
CsvRoundTrip ==
  (Called("handleDownload") /\ returned[1].saved) =>
    ParseCsv(returned[1].content) = ExpectedRecords(called[1].res)

\* C25: the downloaded CSV holds the whole displayed result: one record per
\* element of result.data and one column per entry of result.columns, in
\* the same order, each field being the cell of that row under that column.
DownloadHasAllColumns ==
  (Called("handleDownload") /\ returned[1].saved) =>
    LET res == called[1].res
        out == returned[1]
    IN /\ out.headers = res.columns
       /\ Len(out.fields) = Len(res.data)
       /\ \A i \in 1..Len(res.data) :
            /\ Len(out.fields[i]) = Len(res.columns)
            /\ \A j \in 1..Len(res.columns) :
                 out.fields[i][j] = csvField(Get(res.data[i], res.columns[j]))

\* The characters of the file names of Files, and of the empty name.
Characters(name) ==
  CASE name = "data.csv" -> <<"d", "a", "t", "a", ".", "c", "s", "v">>
    [] name = "sales.json" -> <<"s", "a", "l", "e", "s", ".", "j", "s", "o", "n">>
    [] name = "" -> <<>>

\* The download name the claim gives for a result produced from `file`: the
\* name without its last extension, followed by _cleaned.csv.
CleanedName(file) ==
  CASE file = "data.csv" ->
         <<"d", "a", "t", "a", "_", "c", "l", "e", "a", "n", "e", "d",
           ".", "c", "s", "v">>
    [] file = "sales.json" ->
         <<"s", "a", "l", "e", "s", "_", "c", "l", "e", "a", "n", "e", "d",
           ".", "c", "s", "v">>

\* The name handleDownload gives the file in the current state, for a
\* result with a data row.
DownloadName ==
  LET rows == CHOOSE t \in Tables(Headers, 1) : TRUE
  IN handleDownload(Result(Headers, rows), Characters(originalFilename)).download

\* C26: for every result that can be downloaded, the download is named
\* after the uploaded file that produced the result, its last extension
\* removed and _cleaned.csv appended, on the quick-clean path as on the
\* interactive path; stated here for the results of quick clean, whose
\* request names the file.
DownloadNamedAfterFile ==
  (ResultShown /\ result[1].from.kind = "clean") =>
    DownloadName = CleanedName(result[1].from.file)

\* C27: submitting an empty or whitespace-only instruction, by the button
\* or by the Enter key, is a no-op: no generate request is sent and no
\* state variable changes.
BlankInstructionIsNoOp ==
  [][Trim(instruction) = <<>> =>
       /\ ~Added("generate")
       /\ (PressEnter \/ ClickGenerate) => UNCHANGED vars]_vars

\* The preview is shown with a whitespace-only instruction typed in, and
\* nothing is in flight.
BlankInstructionIsNoOpWitness ==
  /\ PreviewShown
  /\ instruction = <<" ">>
  /\ ~loading
  /\ inflight = EmptyBag
  /\ error = Null

\* C28: whenever the client discards a non-null sessionId, by handleReset or
\* by an upload that replaces it, it sends a clearSession request for that
\* id.
AbandonedSessionTornDown ==
  [][(sessionId # Null /\ sessionId' # sessionId) =>
       \E r \in BagToSet(inflight') :
         /\ r.kind = "clearSession"
         /\ r.sessionId = sessionId
         /\ CopiesIn(r, inflight') > CopiesIn(r, inflight)]_vars

====
